---- MODULE Spec2Model ----
(***************************************************************************)
(* FLAC-with-ease: the batch driver main() and the per-file pipeline       *)
(* process_songs() of src/main.py, with the helpers of src/classes.py      *)
(* they call (SongHandler, StringAnalyzer, SongDownload, File).            *)
(*                                                                         *)
(* Python strings are sequences of Unicode code points, so that the        *)
(* substring tests, the regular expressions and the f-strings of the code  *)
(* are computed as the code computes them.  A Python value that may be     *)
(* None is a record [none, s].                                             *)
(***************************************************************************)
EXTENDS Integers, Sequences, FiniteSets, TLC

\* ------------------------------------------------------------------ bounds
NumFiles   == 2     \* entries returned by os.listdir(SOURCE_FOLDER)
MaxCands   == 2     \* longest tracks.items list the catalog answers with
MaxInvalid == 1     \* unrecognized inputs typed at one prompt
MaxPieces  == 3     \* pieces of the longest text remove_after_keyword is given

\* ------------------------------------------------------- Python values
PyNone   == [none |-> TRUE,  s |-> <<>>]
PyStr(s) == [none |-> FALSE, s |-> s]
PyNoneInt == [none |-> TRUE,  n |-> 0]
PyInt(n)  == [none |-> FALSE, n |-> n]

\* str(n) of a non-negative int
RECURSIVE IntStr(_)
IntStr(n) == IF n < 10 THEN <<48 + n>> ELSE IntStr(n \div 10) \o <<48 + (n % 10)>>

\* "{v}" inside an f-string: None prints as the text None
Fmt(v) == IF v.none THEN <<78, 111, 110, 101>> ELSE v.s
FmtInt(v) == IF v.none THEN <<78, 111, 110, 101>> ELSE IntStr(v.n)

\* `w in s` for two strings
Contains(s, w) ==
    \E k \in 0..(Len(s) - Len(w)) : SubSeq(s, k + 1, k + Len(w)) = w

\* s.split(w)[0]: the text before the first occurrence of w (w occurs in s)
BeforeFirst(s, w) ==
    LET k == CHOOSE k \in 0..(Len(s) - Len(w)) :
                 /\ SubSeq(s, k + 1, k + Len(w)) = w
                 /\ \A j \in 0..(k - 1) : SubSeq(s, j + 1, j + Len(w)) # w
    IN  SubSeq(s, 1, k)

\* ------------------------------------------------------- StringAnalyzer
EXCLUDE_ITEMS ==
    << <<73, 110, 115, 116, 114, 117, 109, 101, 110, 116, 97, 108>>,     \* Instrumental
       <<75, 97, 114, 97, 111, 107, 101>>,                               \* Karaoke
       <<79, 114, 105, 103, 105, 110, 97, 108, 108, 121, 32,
         80, 101, 114, 102, 111, 114, 109, 101, 100>> >>                 \* Originally Performed

SIMILARITY_VALUE == 90

KEYWORDS_TO_DELETE_AFTER ==
    << <<102, 101, 97, 116>>,                                            \* feat
       <<40>>, <<44>>, <<38>>,                                           \* ( , &
       <<1052, 1091, 1079, 1099, 1082, 1072, 32, 1042, 32, 1052, 1072,
         1096, 1080, 1085, 1091, 32, 50, 48, 50, 51>> >>

\* re.search('[а-яА-Я]', s): U+0410 (А) .. U+044F (я)
has_cyrillic(s) == \E k \in 1..Len(s) : s[k] \in 1040..1103

\* has_word with all() in place of any()
has_word_All(s, word_dict) == \A k \in 1..Len(word_dict) : Contains(s, word_dict[k])

has_word(s, word_dict) == \E k \in 1..Len(word_dict) : Contains(s, word_dict[k])

has_exception(s) == has_word(s, EXCLUDE_ITEMS)

\* is_similar with > in place of >=
is_similar_Strict(similarity_ratio) == similarity_ratio > SIMILARITY_VALUE

is_similar(similarity_ratio) == similarity_ratio >= SIMILARITY_VALUE

RECURSIVE RemoveAfter(_, _)
RemoveAfter(s, kws) ==
    IF kws = <<>> THEN s
    ELSE IF Contains(s, Head(kws)) THEN BeforeFirst(s, Head(kws))
    ELSE RemoveAfter(s, Tail(kws))

\* remove_after_keyword without the break: every keyword found is applied
RECURSIVE RemoveAfterEach(_, _)
RemoveAfterEach(s, kws) ==
    IF kws = <<>> THEN s
    ELSE IF Contains(s, Head(kws))
         THEN RemoveAfterEach(BeforeFirst(s, Head(kws)), Tail(kws))
    ELSE RemoveAfterEach(s, Tail(kws))

remove_after_keyword_NoBreak(s) == RemoveAfterEach(s, KEYWORDS_TO_DELETE_AFTER)

remove_after_keyword(s) == RemoveAfter(s, KEYWORDS_TO_DELETE_AFTER)

\* \d and \w of Python's re on str, over the code points the model uses
IsDigit(c) == c \in 48..57
IsWord(c)  == \/ c \in 48..57 \/ c \in 65..90 \/ c \in 97..122 \/ c = 95
              \/ c \in 1024..1279

\* const.DEBUG_COMPLEX (config.py): the debug print of extract_from is off
DEBUG_COMPLEX == FALSE

\* positions where r'\b\d{4}\b' matches in s
YearAt(s, k) ==
    /\ k + 3 <= Len(s)
    /\ \A j \in k..(k + 3) : IsDigit(s[j])
    /\ (k = 1 \/ ~IsWord(s[k - 1]))
    /\ (k + 3 = Len(s) \/ ~IsWord(s[k + 4]))

\* extract_from(s, r'\b\d{4}\b'): [raises, value]
extract_from(s) ==
    LET hits == {k \in 1..Len(s) : YearAt(s, k)}
    IN  IF hits = {}
        THEN [raises |-> DEBUG_COMPLEX, value |-> <<>>]
        ELSE LET k == CHOOSE k \in hits : \A j \in hits : k <= j
             IN  [raises |-> FALSE, value |-> SubSeq(s, k, k + 3)]

\* ------------------------------------------------------------ the inputs
\* The titles: bcdefghi is the catalog's; a file tagged bcdefghj scores 90
\* against it and one tagged bcdefg scores 89.
Bcdefghi == <<98, 99, 100, 101, 102, 103, 104, 105>>
Bcdefghj == <<98, 99, 100, 101, 102, 103, 104, 106>>
Bcdefg   == <<98, 99, 100, 101, 102, 103>>
Karaoke  == Bcdefghi \o <<32, 75, 97, 114, 97, 111, 107, 101>>

\* What eyed3 reads from a local file: load succeeds or not, a tag is there
\* or not, and the tag's artist and title.
LocalFiles ==
    { [loads |-> FALSE, hasTag |-> FALSE, artist |-> PyNone, title |-> PyNone],
      [loads |-> TRUE,  hasTag |-> TRUE,  artist |-> PyStr(<<65>>), title |-> PyStr(Bcdefghj)],   \* A / bcdefghj
      [loads |-> TRUE,  hasTag |-> TRUE,  artist |-> PyStr(<<65>>), title |-> PyStr(Bcdefg)],     \* A / bcdefg
      [loads |-> TRUE,  hasTag |-> TRUE,  artist |-> PyStr(<<65>>), title |-> PyStr(<<1031>>)],   \* A / Ї
      [loads |-> TRUE,  hasTag |-> TRUE,  artist |-> PyStr(<<65>>), title |-> PyStr(<<1071>>)] }  \* A / Я

\* Entries of tracks.items as the catalog returns them.
Item(id, hasPerformer, name, title, copyright, depth, rate) ==
    [id |-> id, hasPerformer |-> hasPerformer, name |-> name, title |-> title,
     copyright |-> copyright, maximum_bit_depth |-> depth,
     maximum_sampling_rate |-> rate, missing |-> {}]

\* the item without one of its keys ("name" is performer.name)
Lacking(item, key) == [item EXCEPT !.missing = @ \cup {key}]

Catalog ==
    { Item(42, TRUE, <<65>>, Bcdefghi, <<50, 48, 49, 57, 32, 76>>, 24, 96),    \* A - bcdefghi, "2019 L"
      Item(43, TRUE, <<65>>, Karaoke, <<50, 48, 49, 57, 32, 76>>, 24, 96),     \* A - bcdefghi Karaoke
      Item(44, TRUE, <<65>>, <<1071>>,
           <<49, 50, 51, 52, 53, 32, 50, 48, 50, 48, 120, 32,
             50, 48, 49, 57, 32, 50, 48, 50, 49>>, 16, 44),    \* A - Я, "12345 2020x 2019 2021"
      Item(45, TRUE, <<65>>, <<1031>>, <<76>>, 16, 44),                        \* A - Ї, "L"
      Item(46, FALSE, <<>>, Bcdefghi, <<50, 48, 49, 57, 32, 76>>, 24, 96) }      \* no performer

\* the lists of at most n members of S, no member twice
RECURSIVE SeqsUpTo(_, _)
SeqsUpTo(S, n) ==
    IF n = 0 THEN {<<>>}
    ELSE LET shorter == SeqsUpTo(S, n - 1)
             longest == {r \in shorter : Len(r) = n - 1}
         IN  shorter \cup
             {Append(p[1], p[2]) :
                 p \in {p \in longest \X S :
                            \A j \in 1..Len(p[1]) : p[1][j] # p[2]}}

\* What the search endpoint can answer.
Responses ==
    {[kind |-> k, items |-> <<>>] :
        k \in {"connerror", "badstatus", "badjson", "nonobject", "notracks", "nulltracks"}}
    \cup {[kind |-> "ok", items |-> q] : q \in SeqsUpTo(Catalog, MaxCands)}

\* What the download endpoint and the destination folder can do.  A stream
\* that ends before Content-Length bytes arrived comes in the two forms the
\* installed HTTP library can give it: an exception out of read()
\* ("truncated"), or a plain end of stream ("truncated_unnoticed").
DownloadOutcomes ==
    {"ok", "connerror", "badstatus", "nolength", "openfail",
     "truncated", "truncated_unnoticed"}

\* What the operator can type at the prompt.
Inputs == {"1", "2", "3", "4", "x"}

\* fuzz.token_set_ratio (fuzzywuzzy) on the display names the inputs give:
\* <<local name, candidate name, score>>.  The local names that can reach
\* the scoring are None - None, A - bcdefghj, A - bcdefg and A - \u0407; the
\* candidates' are A - bcdefghi, A - bcdefghi Karaoke, A - \u0407,
\* A/B - bcdefghi and None - bcdefghi.
Scores ==
    { <<<<78, 111, 110, 101, 32, 45, 32, 78, 111, 110, 101>>,
        <<65, 32, 45, 32, 98, 99, 100, 101, 102, 103, 104, 105>>, 14>>,
      <<<<78, 111, 110, 101, 32, 45, 32, 78, 111, 110, 101>>,
        <<65, 32, 45, 32, 98, 99, 100, 101, 102, 103, 104, 105, 32, 75, 97, 114, 97, 111, 107, 101>>, 18>>,
      <<<<78, 111, 110, 101, 32, 45, 32, 78, 111, 110, 101>>,
        <<65, 32, 45, 32, 1031>>, 0>>,
      <<<<78, 111, 110, 101, 32, 45, 32, 78, 111, 110, 101>>,
        <<65, 47, 66, 32, 45, 32, 98, 99, 100, 101, 102, 103, 104, 105>>, 12>>,
      <<<<78, 111, 110, 101, 32, 45, 32, 78, 111, 110, 101>>,
        <<78, 111, 110, 101, 32, 45, 32, 98, 99, 100, 101, 102, 103, 104, 105>>, 100>>,
      <<<<65, 32, 45, 32, 98, 99, 100, 101, 102, 103, 104, 106>>,
        <<65, 32, 45, 32, 98, 99, 100, 101, 102, 103, 104, 105>>, 90>>,
      <<<<65, 32, 45, 32, 98, 99, 100, 101, 102, 103, 104, 106>>,
        <<65, 32, 45, 32, 98, 99, 100, 101, 102, 103, 104, 105, 32, 75, 97, 114, 97, 111, 107, 101>>, 64>>,
      <<<<65, 32, 45, 32, 98, 99, 100, 101, 102, 103, 104, 106>>,
        <<65, 32, 45, 32, 1031>>, 50>>,
      <<<<65, 32, 45, 32, 98, 99, 100, 101, 102, 103, 104, 106>>,
        <<65, 47, 66, 32, 45, 32, 98, 99, 100, 101, 102, 103, 104, 105>>, 82>>,
      <<<<65, 32, 45, 32, 98, 99, 100, 101, 102, 103, 104, 106>>,
        <<78, 111, 110, 101, 32, 45, 32, 98, 99, 100, 101, 102, 103, 104, 105>>, 61>>,
      <<<<65, 32, 45, 32, 98, 99, 100, 101, 102, 103>>,
        <<65, 32, 45, 32, 98, 99, 100, 101, 102, 103, 104, 105>>, 89>>,
      <<<<65, 32, 45, 32, 98, 99, 100, 101, 102, 103>>,
        <<65, 32, 45, 32, 98, 99, 100, 101, 102, 103, 104, 105, 32, 75, 97, 114, 97, 111, 107, 101>>, 62>>,
      <<<<65, 32, 45, 32, 98, 99, 100, 101, 102, 103>>,
        <<65, 32, 45, 32, 1031>>, 50>>,
      <<<<65, 32, 45, 32, 98, 99, 100, 101, 102, 103>>,
        <<65, 47, 66, 32, 45, 32, 98, 99, 100, 101, 102, 103, 104, 105>>, 80>>,
      <<<<65, 32, 45, 32, 98, 99, 100, 101, 102, 103>>,
        <<78, 111, 110, 101, 32, 45, 32, 98, 99, 100, 101, 102, 103, 104, 105>>, 57>>,
      <<<<65, 32, 45, 32, 1031>>,
        <<65, 32, 45, 32, 98, 99, 100, 101, 102, 103, 104, 105>>, 50>>,
      <<<<65, 32, 45, 32, 1031>>,
        <<65, 32, 45, 32, 98, 99, 100, 101, 102, 103, 104, 105, 32, 75, 97, 114, 97, 111, 107, 101>>, 50>>,
      <<<<65, 32, 45, 32, 1031>>,
        <<65, 32, 45, 32, 1031>>, 100>>,
      <<<<65, 32, 45, 32, 1031>>,
        <<65, 47, 66, 32, 45, 32, 98, 99, 100, 101, 102, 103, 104, 105>>, 50>>,
      <<<<65, 32, 45, 32, 1031>>,
        <<78, 111, 110, 101, 32, 45, 32, 98, 99, 100, 101, 102, 103, 104, 105>>, 12>> }

token_set_ratio(s1, s2) ==
    (CHOOSE t \in Scores : t[1] = s1 /\ t[2] = s2)[3]

\* ------------------------------------------------------------- the state
VARIABLES
    pc,            \* where main() / process_songs() stands
    idx,           \* position of main's loop in source_files (1-based)
    mp3_filepath,  \* the file process_songs was last called for (0: none yet)
    loc,           \* each listed file: still in SOURCE_FOLDER, or in its done folder
    dest,          \* the filenames present in FLAC_FOLDER
    incomplete,    \* those of them seen to hold fewer bytes than their download declared
    fp,            \* SongHandler._file_artist, _file_title
    songs,         \* the list request() returned
    i,             \* how many items the for loop has taken
    song,          \* SongHandler's fields written by set_info
    invalid,       \* unrecognized inputs at the current prompt
    trace,         \* what the current process_songs call did, in order
    call           \* one operation applied on its own: [op, arg, res, done]

vars == <<pc, idx, mp3_filepath, loc, dest, incomplete, fp, songs, i, song, invalid,
          trace, call>>

Ev(e, k, a) == [ev |-> e, i |-> k, a |-> a]

NoSong ==
    [track_id |-> PyNoneInt, artist |-> PyNone, title |-> PyNone,
     bit_depth |-> PyNoneInt, sampling_rate |-> PyNoneInt,
     year |-> PyNone, filename |-> PyNone]

NoFp == [artist |-> PyNone, title |-> PyNone]

\* no operation is being applied on its own
NoCall == [op |-> "", arg |-> <<>>, res |-> <<>>, done |-> TRUE]

\* ------------------------------------------------------------ SongHandler
\* extract(): the tags, cut after a noise keyword; any exception inside the
\* try leaves artist and title as they were when it was raised.
extract(f) ==
    IF ~f.loads \/ ~f.hasTag THEN NoFp
    ELSE IF f.artist.none THEN [artist |-> f.artist, title |-> f.title]
    ELSE IF f.title.none
         THEN [artist |-> PyStr(remove_after_keyword(f.artist.s)), title |-> f.title]
    ELSE [artist |-> PyStr(remove_after_keyword(f.artist.s)),
          title  |-> PyStr(remove_after_keyword(f.title.s))]

\* request(): [raises, none, songs]; none is TRUE when request() gives None
\* (the request or the JSON parsing failed).  data.get on a body that is
\* no object, or on a tracks value that is none, is an AttributeError no
\* except clause of request() names.
request(resp) ==
    CASE resp.kind \in {"connerror", "badstatus", "badjson"} ->
             [raises |-> "", none |-> TRUE, songs |-> <<>>]
      [] resp.kind \in {"nonobject", "nulltracks"} ->
             [raises |-> "AttributeError", none |-> TRUE, songs |-> <<>>]
      [] resp.kind = "notracks" ->
             [raises |-> "", none |-> FALSE, songs |-> <<>>]
      [] OTHER ->
             [raises |-> "", none |-> FALSE, songs |-> resp.items]

\* The filename f-string of set_info.
Filename(artist, title, year, bit_depth, sampling_rate) ==
    Fmt(artist) \o <<32, 45, 32>> \o Fmt(title) \o <<32, 40>> \o Fmt(year)
    \o <<41, 32, 91, 70, 76, 65, 67, 93, 32, 91>> \o FmtInt(bit_depth)
    \o <<66, 32, 45, 32>> \o FmtInt(sampling_rate)
    \o <<107, 72, 122, 93, 46, 102, 108, 97, 99>>

\* _parse(data, key) and _artist_dict.get('name'): dict.get gives None for
\* a key the item does not have
ParseStr(data, key, v) == IF key \in data.missing THEN PyNone ELSE PyStr(v)
ParseInt(data, key, v) == IF key \in data.missing THEN PyNoneInt ELSE PyInt(v)

\* the assignments of set_info between the performer lookup and the year
Assigned(s, data) ==
    [s EXCEPT !.artist = ParseStr(data, "name", data.name),
              !.title = ParseStr(data, "title", data.title),
              !.bit_depth = ParseInt(data, "maximum_bit_depth", data.maximum_bit_depth),
              !.sampling_rate = ParseInt(data, "maximum_sampling_rate",
                                         data.maximum_sampling_rate)]

\* the year and the filename, or the exception of re.search on None
WithFilename(partial, data) ==
    IF "copyright" \in data.missing
    THEN [raises |-> "TypeError", song |-> partial]
    ELSE LET y == extract_from(data.copyright)
         IN  IF y.raises
             THEN [raises |-> "AttributeError", song |-> partial]
             ELSE [raises |-> "",
                   song |-> [partial EXCEPT
                       !.year = PyStr(y.value),
                       !.filename = PyStr(Filename(partial.artist, partial.title,
                                                   PyStr(y.value), partial.bit_depth,
                                                   partial.sampling_rate))]]

\* set_info with the track id assigned only while the handler has none
set_info_KeepsId(old, data) ==
    LET s1 == [old EXCEPT !.track_id = IF old.track_id.none
                                       THEN ParseInt(data, "id", data.id)
                                       ELSE old.track_id]
    IN  IF ~data.hasPerformer
        THEN [raises |-> "AttributeError", song |-> s1]
        ELSE WithFilename(Assigned(s1, data), data)

\* set_info(data): [raises, song]; the fields assigned before the exception
\* keep their new values.  An item without a performer object makes
\* _artist_dict.get raise; one without a copyright makes re.search raise;
\* any other missing key is None and is formatted as the text None.
set_info(old, data) ==
    LET s1 == [old EXCEPT !.track_id = ParseInt(data, "id", data.id)]
    IN  IF ~data.hasPerformer
        THEN [raises |-> "AttributeError", song |-> s1]
        ELSE WithFilename(Assigned(s1, data), data)

\* f"{artist} - {title}"
DisplayName(artist, title) == Fmt(artist) \o <<32, 45, 32>> \o Fmt(title)

name_local == DisplayName(fp.artist, fp.title)

\* str.replace(" ", "%20")
RECURSIVE PercentSpaces(_)
PercentSpaces(s) ==
    IF s = <<>> THEN <<>>
    ELSE (IF Head(s) = 32 THEN <<37, 50, 48>> ELSE <<Head(s)>>)
         \o PercentSpaces(Tail(s))

\* the query string of request(): f"{artist} {title}".replace(" ", "%20")
Query(artist, title) == PercentSpaces(Fmt(artist) \o <<32>> \o Fmt(title))

\* File.exists(filename, folder_path)
FileExists(filename, folder) == filename \in folder

\* ------------------------------------------------------------------ main
\* main's handler as a bare `except:`
CaughtByMain_Bare(exc) == TRUE

\* main's handler as `except OSError`
CaughtByMain_OSError(exc) == exc = "OSError"

\* `except Exception` of main: every exception class but SystemExit (and
\* the other direct children of BaseException).
CaughtByMain(exc) == exc # "SystemExit"

\* An exception leaves process_songs: main logs it and goes on with the
\* next entry, or it unwinds main too.
Raise(exc, tr) ==
    IF CaughtByMain(exc)
    THEN /\ pc' = "main"
         /\ idx' = idx + 1
         /\ trace' = tr \o <<Ev("raise", 0, exc), Ev("caught", 0, exc)>>
    ELSE /\ pc' = "terminated"
         /\ idx' = idx
         /\ trace' = Append(tr, Ev("raise", 0, exc))

\* process_songs returns to main's loop.
Return(tr) ==
    /\ pc' = "main"
    /\ idx' = idx + 1
    /\ trace' = Append(tr, Ev("return", 0, ""))

\* check_and_move(filepath): what it does (moves, or reports that the
\* source file is not there), and where the file is afterwards.
MoveEvents(k) ==
    IF loc[mp3_filepath] = "source" THEN <<Ev("move", k, "")>>
                                    ELSE <<Ev("nomove", k, "")>>

check_and_move == [loc EXCEPT ![mp3_filepath] = "done"]

\* The filename set_info gives Catalog's first two entries.
FlacOf(title) ==
    Filename(PyStr(<<65>>), PyStr(title), PyStr(<<50, 48, 49, 57>>), PyInt(24), PyInt(96))

Init ==
    /\ pc = "main"
    /\ idx = 1
    /\ mp3_filepath = 0
    /\ loc = [f \in 1..NumFiles |-> "source"]
    /\ dest \in {{}, {FlacOf(Bcdefghi), FlacOf(Karaoke)}}
    /\ incomplete = {}
    /\ fp = NoFp
    /\ songs = <<>>
    /\ i = 0
    /\ song = NoSong
    /\ invalid = 0
    /\ trace = <<>>
    /\ call = NoCall

\* main.py 116-124: the next directory entry; one that does not end with
\* the source extension is passed over.  The handler of the call that just
\* ended (the locals of process_songs) is gone when main's loop goes on.
MainNext ==
    /\ pc = "main"
    /\ fp' = NoFp
    /\ songs' = <<>>
    /\ i' = 0
    /\ song' = NoSong
    /\ invalid' = 0
    /\ trace' = <<>>
    /\ IF idx > NumFiles
       THEN /\ pc' = "done"
            /\ UNCHANGED <<idx, mp3_filepath>>
       ELSE \E isSource \in BOOLEAN :
              IF isSource
              THEN /\ pc' = "extract"
                   /\ mp3_filepath' = idx
                   /\ UNCHANGED idx
              ELSE /\ idx' = idx + 1
                   /\ UNCHANGED <<pc, mp3_filepath>>
    /\ UNCHANGED <<loc, dest, incomplete, call>>

\* main.py 67-68, classes.py 110-139
Extract ==
    /\ pc = "extract"
    /\ \E f \in LocalFiles : fp' = extract(f)
    /\ pc' = "request"
    /\ trace' = Append(trace, Ev("extract", 0, ""))
    /\ UNCHANGED <<idx, mp3_filepath, loc, dest, incomplete, songs, i, song, invalid, call>>

\* Request with the search sent a second time for the same file
Request_Twice ==
    /\ pc = "request"
    /\ \E resp \in Responses :
         LET r  == request(resp)
             tr == trace \o <<Ev("search", 0, resp.kind), Ev("search", 0, resp.kind)>>
         IN  IF r.raises # ""
             THEN /\ Raise(r.raises, tr)
                  /\ UNCHANGED songs
             ELSE IF r.none \/ r.songs = <<>>
             THEN /\ Return(Append(tr, Ev("notfound", 0, "")))
                  /\ UNCHANGED songs
             ELSE /\ songs' = r.songs
                  /\ pc' = "loop"
                  /\ trace' = tr
                  /\ UNCHANGED idx
    /\ UNCHANGED <<mp3_filepath, loc, dest, incomplete, fp, i, song, invalid, call>>

\* main.py 69-74, classes.py 141-172
Request ==
    /\ pc = "request"
    /\ \E resp \in Responses :
         LET r  == request(resp)
             tr == Append(trace, Ev("search", 0, resp.kind))
         IN  IF r.raises # ""
             THEN /\ Raise(r.raises, tr)
                  /\ UNCHANGED songs
             ELSE IF r.none \/ r.songs = <<>>
             THEN /\ Return(Append(tr, Ev("notfound", 0, "")))
                  /\ UNCHANGED songs
             ELSE /\ songs' = r.songs
                  /\ pc' = "loop"
                  /\ trace' = tr
                  /\ UNCHANGED idx
    /\ UNCHANGED <<mp3_filepath, loc, dest, incomplete, fp, i, song, invalid, call>>

\* AlreadyExists with check_and_move lacking its os.path.exists guard:
\* shutil.move of a file that is no longer there raises.
AlreadyExists_Unguarded(k, tr) ==
    IF loc[mp3_filepath] = "source"
    THEN /\ trace' = tr \o <<Ev("exists", k, ""), Ev("move", k, "")>>
         /\ loc' = check_and_move
         /\ UNCHANGED <<pc, idx>>
    ELSE /\ Raise("FileNotFoundError", Append(tr, Ev("exists", k, "")))
         /\ UNCHANGED loc

\* main.py 85-88: the candidate's filename is in the destination folder
AlreadyExists(k, tr) ==
    /\ trace' = Append(tr, Ev("exists", k, "")) \o MoveEvents(k)
    /\ loc' = check_and_move
    /\ UNCHANGED <<pc, idx>>

\* main.py 77-90 and 105-111: what one iteration of the candidate loop
\* comes to for the item data, on a handler left as old by the iterations
\* before: the handler's fields after set_info, and the branch taken, or
\* the call that raised and its exception.
Classify(local, old, data, folder) ==
    LET si == set_info(old, data)
        s  == si.song
        name_json == DisplayName(s.artist, s.title)
        local_name == DisplayName(local.artist, local.title)
    IN  IF si.raises # ""
        THEN [song |-> s, branch |-> "set_info", exc |-> si.raises]
        ELSE IF s.title.none
        THEN [song |-> s, branch |-> "has_exception", exc |-> "TypeError"]
        ELSE IF has_exception(s.title.s)
        THEN [song |-> s, branch |-> "excluded", exc |-> ""]
        ELSE IF FileExists(s.filename.s, folder)
        THEN [song |-> s, branch |-> "exists", exc |-> ""]
        ELSE IF has_cyrillic(local_name) \/ has_cyrillic(name_json)
        THEN [song |-> s, branch |-> "prompt", exc |-> ""]
        ELSE IF is_similar(token_set_ratio(local_name, name_json))
        THEN [song |-> s, branch |-> "similar", exc |-> ""]
        ELSE [song |-> s, branch |-> "nomatch", exc |-> ""]

\* main.py 76-90 and 105-111: one iteration of the candidate loop, up to the
\* prompt or the download.
LoopStep ==
    /\ pc = "loop"
    /\ IF i = Len(songs)
       THEN /\ Return(trace)
            /\ UNCHANGED <<i, song, loc, invalid>>
       ELSE LET k  == i + 1
                c  == Classify(fp, song, songs[k], dest)
                tr0 == Append(trace, Ev("item", k, ""))
                tr == Append(tr0, Ev("found", k, ""))
            IN  /\ i' = k
                /\ song' = c.song
                /\ invalid' = 0
                /\ CASE c.branch = "set_info" ->
                            /\ Raise(c.exc, tr0)
                            /\ UNCHANGED loc
                     [] c.branch = "has_exception" ->
                            /\ Raise(c.exc, tr)
                            /\ UNCHANGED loc
                     [] c.branch = "excluded" ->
                            /\ trace' = Append(tr, Ev("excluded", k, ""))
                            /\ UNCHANGED <<pc, idx, loc>>
                     [] c.branch = "exists" ->
                            AlreadyExists(k, tr)
                     [] c.branch = "prompt" ->
                            /\ pc' = "prompt"
                            /\ trace' = Append(tr, Ev("prompt", k, ""))
                            /\ UNCHANGED <<idx, loc>>
                     [] c.branch = "similar" ->
                            /\ pc' = "download"
                            /\ trace' = Append(tr, Ev("similar", k, ""))
                            /\ UNCHANGED <<idx, loc>>
                     [] OTHER ->
                            /\ trace' = Append(tr, Ev("nomatch", k, ""))
                            /\ UNCHANGED <<pc, idx, loc>>
    /\ UNCHANGED <<mp3_filepath, dest, incomplete, fp, songs, call>>

\* song_handling with a default case that returns Action.SKIP
song_handling_DefaultSkip(user_input) ==
    CASE user_input = "1" -> "DOWNLOAD"
      [] user_input = "3" -> "EXIT"
      [] user_input = "4" -> "QUIT"
      [] OTHER -> "SKIP"

\* main.py 24-34: the Action for one input line ("" : invalid, asked again)
song_handling(user_input) ==
    CASE user_input = "1" -> "DOWNLOAD"
      [] user_input = "2" -> "SKIP"
      [] user_input = "3" -> "EXIT"
      [] user_input = "4" -> "QUIT"
      [] OTHER -> ""

\* OnAction with the Exit case ending the program as the Quit case does
OnAction_ExitQuits(action, tr) ==
    CASE action = "DOWNLOAD" -> /\ pc' = "download"
                                /\ trace' = tr
                                /\ UNCHANGED idx
      [] action = "SKIP"     -> /\ pc' = "loop"
                                /\ trace' = tr
                                /\ UNCHANGED idx
      [] OTHER               -> Raise("SystemExit", tr)

\* OnAction with the Skip case leaving the loop as the Exit case does
OnAction_SkipBreaks(action, tr) ==
    CASE action = "DOWNLOAD" -> /\ pc' = "download"
                                /\ trace' = tr
                                /\ UNCHANGED idx
      [] action \in {"SKIP", "EXIT"} -> Return(tr)
      [] OTHER               -> Raise("SystemExit", tr)

\* main.py 91-104: what process_songs does with the operator's Action
OnAction(action, tr) ==
    CASE action = "DOWNLOAD" -> /\ pc' = "download"
                                /\ trace' = tr
                                /\ UNCHANGED idx
      [] action = "SKIP"     -> /\ pc' = "loop"
                                /\ trace' = tr
                                /\ UNCHANGED idx
      [] action = "EXIT"     -> Return(tr)
      [] OTHER               -> Raise("SystemExit", tr)

\* main.py 16-34 and 91-104: song_handling reads one input line
Prompt ==
    /\ pc = "prompt"
    /\ \E user_input \in Inputs :
         LET action == song_handling(user_input)
             tr == Append(trace, Ev("input", i, user_input))
         IN  IF action = ""
             THEN /\ invalid < MaxInvalid
                  /\ invalid' = invalid + 1
                  /\ trace' = Append(tr, Ev("invalid", i, ""))
                  /\ UNCHANGED <<pc, idx>>
             ELSE /\ OnAction(action, Append(tr, Ev("answer", i, action)))
                  /\ UNCHANGED invalid
    /\ UNCHANGED <<mp3_filepath, loc, dest, incomplete, fp, songs, i, song, call>>

\* DownloadAndMove with `continue` in place of the `break` after
\* check_and_move.
DownloadAndMove_NoBreak(outcome, tr) ==
    CASE outcome \in {"ok", "truncated_unnoticed"} ->
             /\ dest' = dest \cup {song.filename.s}
             /\ loc' = check_and_move
             /\ pc' = "loop"
             /\ trace' = Append(tr, Ev("dlok", i, "")) \o MoveEvents(i)
             /\ UNCHANGED idx
      [] outcome \in {"connerror", "badstatus"} ->
             /\ Raise("AttributeError", Append(tr, Ev("dlfail", i, "")))
             /\ UNCHANGED <<dest, loc>>
      [] outcome = "nolength" ->
             /\ Raise("TypeError", Append(tr, Ev("dlfail", i, "")))
             /\ UNCHANGED <<dest, loc>>
      [] outcome = "truncated" ->
             /\ dest' = dest \cup {song.filename.s}
             /\ Raise("ProtocolError", Append(tr, Ev("dlfail", i, "")))
             /\ UNCHANGED loc
      [] OTHER ->
             /\ Raise("OSError", Append(tr, Ev("dlfail", i, "")))
             /\ UNCHANGED <<dest, loc>>

\* main.py 93-95 and 106-108 with classes.py 30-57: perform_download, then
\* check_and_move and break when it raised nothing.  A request that failed
\* makes request() give None, which the with statement cannot enter; a
\* missing Content-Length makes int(None) raise; open() can fail.  The code
\* never compares the bytes it copied with Content-Length: a stream that
\* ends early is noticed only when the HTTP library raises ("truncated",
\* with the part already written left in the folder); when the library
\* reports a plain end of stream ("truncated_unnoticed") copyfileobj
\* returns and the code goes on exactly as after a complete download, the
\* "dlok" event meaning only that perform_download returned.
DownloadAndMove(outcome, tr) ==
    CASE outcome \in {"ok", "truncated_unnoticed"} ->
             /\ dest' = dest \cup {song.filename.s}
             /\ loc' = check_and_move
             /\ Return(Append(tr, Ev("dlok", i, "")) \o MoveEvents(i))
      [] outcome \in {"connerror", "badstatus"} ->
             /\ Raise("AttributeError", Append(tr, Ev("dlfail", i, "")))
             /\ UNCHANGED <<dest, loc>>
      [] outcome = "nolength" ->
             /\ Raise("TypeError", Append(tr, Ev("dlfail", i, "")))
             /\ UNCHANGED <<dest, loc>>
      [] outcome = "truncated" ->
             /\ dest' = dest \cup {song.filename.s}
             /\ Raise("ProtocolError", Append(tr, Ev("dlfail", i, "")))
             /\ UNCHANGED loc
      [] OTHER ->
             /\ Raise("OSError", Append(tr, Ev("dlfail", i, "")))
             /\ UNCHANGED <<dest, loc>>

Download ==
    /\ pc = "download"
    /\ \E outcome \in DownloadOutcomes :
         DownloadAndMove(outcome, Append(trace, Ev("dlreq", i, outcome)))
    /\ UNCHANGED <<mp3_filepath, incomplete, fp, songs, i, song, invalid, call>>

Next == MainNext \/ Extract \/ Request \/ LoopStep \/ Prompt \/ Download

Spec == Init /\ [][Next]_vars

\* Weak fairness of LoopStep, written out: LoopStep is enabled exactly
\* when pc = "loop" (it then returns, or takes the next item), so
\* WF_vars(LoopStep) is []<>~(pc = "loop") \/ []<><<LoopStep>>_vars.
FairLoopStep == []<>(pc # "loop") \/ []<><<LoopStep>>_vars

\* Every call the pipeline makes returns (the tag reader, the search, the
\* download), the interpreter goes on with the statement it stands at, and
\* the operator answers each prompt, with a recognized answer after at
\* most MaxInvalid others: each step that can be taken is taken.
SpecFair ==
    /\ Init
    /\ [][Next]_vars
    /\ WF_vars(MainNext)
    /\ WF_vars(Extract)
    /\ WF_vars(Request)
    /\ FairLoopStep
    /\ WF_vars(Prompt)
    /\ WF_vars(Download)

\* --------------------------------------- the operations, one at a time
\* A second specification applies extract, remove_after_keyword, set_info
\* and one iteration of the candidate loop on their own to inputs drawn
\* from bounded sets.

\* the pieces tag texts are built of: x ( , & feat and a space
Pieces == {<<120>>, <<40>>, <<44>>, <<38>>, <<102, 101, 97, 116>>, <<32>>}

\* the texts of at most n pieces
RECURSIVE Texts(_)
Texts(n) ==
    IF n = 0 THEN {<<>>}
    ELSE LET shorter == Texts(n - 1)
         IN  shorter \cup {t \o q : t \in shorter, q \in Pieces}

\* what a tag field can hold: nothing, or a text
TagValues == {PyNone} \cup {PyStr(t) : t \in Texts(MaxPieces - 1)}

\* the files extract() is applied to
TaggedFiles ==
    {[loads |-> FALSE, hasTag |-> FALSE, artist |-> PyNone, title |-> PyNone],
     [loads |-> TRUE,  hasTag |-> FALSE, artist |-> PyNone, title |-> PyNone]}
    \cup {[loads |-> TRUE, hasTag |-> TRUE, artist |-> a, title |-> t] :
              a \in TagValues, t \in TagValues}

\* the keys set_info() reads besides the performer object
RequiredKeys ==
    {"id", "name", "title", "copyright", "maximum_bit_depth", "maximum_sampling_rate"}

\* the items set_info() is applied to: Catalog's, one whose performer name
\* holds a slash (A/B), and Catalog's first without one of its keys
Items ==
    Catalog
    \cup {Item(47, TRUE, <<65, 47, 66>>, Bcdefghi, <<50, 48, 49, 57, 32, 76>>, 24, 96)}
    \cup {Lacking(Item(42, TRUE, <<65>>, Bcdefghi, <<50, 48, 49, 57, 32, 76>>, 24, 96), key) :
             key \in RequiredKeys}

Calls ==
    {[op |-> "extract", arg |-> f, res |-> <<>>, done |-> FALSE] :
        f \in TaggedFiles}
    \cup {[op |-> "remove_after_keyword", arg |-> t, res |-> <<>>, done |-> FALSE] :
              t \in Texts(MaxPieces)}
    \cup {[op |-> "set_info", arg |-> [before |-> b, data |-> d], res |-> <<>>,
           done |-> FALSE] : b \in SeqsUpTo(Items, 1), d \in Items}
    \cup {[op |-> "classify", arg |-> [local |-> extract(f), data |-> d, folder |-> h],
           res |-> <<>>, done |-> FALSE] :
              f \in LocalFiles, d \in Items, h \in {{}, {FlacOf(Bcdefghi)}}}

InitCall ==
    /\ pc = "call"
    /\ idx = 1
    /\ mp3_filepath = 0
    /\ loc = [f \in 1..NumFiles |-> "source"]
    /\ dest = {}
    /\ incomplete = {}
    /\ fp = NoFp
    /\ songs = <<>>
    /\ i = 0
    /\ song = NoSong
    /\ invalid = 0
    /\ trace = <<>>
    /\ call \in Calls

\* everything but call
pipeline == <<pc, idx, mp3_filepath, loc, dest, incomplete, fp, songs, i, song,
              invalid, trace>>

\* classes.py 110-139
CallExtract ==
    /\ call.op = "extract" /\ ~call.done
    /\ call' = [call EXCEPT !.res = extract(call.arg), !.done = TRUE]
    /\ UNCHANGED pipeline

\* classes.py 82-88
CallRemoveAfterKeyword ==
    /\ call.op = "remove_after_keyword" /\ ~call.done
    /\ call' = [call EXCEPT !.res = remove_after_keyword(call.arg), !.done = TRUE]
    /\ UNCHANGED pipeline

\* classes.py 183-192, on a handler that set_info has or has not been
\* applied to before
CallSetInfo ==
    /\ call.op = "set_info" /\ ~call.done
    /\ LET old == IF call.arg.before = <<>> THEN NoSong
                  ELSE set_info(NoSong, call.arg.before[1]).song
       IN  call' = [call EXCEPT !.res = set_info(old, call.arg.data), !.done = TRUE]
    /\ UNCHANGED pipeline

\* main.py 77-90 and 105-111, on a fresh handler
CallClassify ==
    /\ call.op = "classify" /\ ~call.done
    /\ call' = [call EXCEPT
                   !.res = Classify(call.arg.local, NoSong, call.arg.data,
                                    call.arg.folder),
                   !.done = TRUE]
    /\ UNCHANGED pipeline

NextCall == CallExtract \/ CallRemoveAfterKeyword \/ CallSetInfo \/ CallClassify

SpecCall == InitCall /\ [][NextCall]_vars

\* ------------------------------------------------------------ script.py
\* script.py is the one-file form of the program.  Its Handler, Analyzer and
\* Downloader have the code of SongHandler, StringAnalyzer and SongDownload,
\* its main the loop of main.py's main without the try statement, and its
\* song_handling the code of main.py's; process_and_handle_songs renames
\* the local file (loc "renamed") where process_songs moves it.  A third
\* specification runs it.

\* script.py 429-440: the try statement of main is commented out, so every
\* exception that leaves process_and_handle_songs ends the program.
ScriptRaise(exc, tr) ==
    /\ pc' = "terminated"
    /\ idx' = idx
    /\ trace' = Append(tr, Ev("raise", 0, exc))

\* script.py 308-321 and 339-342: check_and_rename with RENAME_SOURCE_FILES
\* True calls os.rename on the local path, with no test that it is there.
RenameRaises == loc[mp3_filepath] # "source"

check_and_rename == [loc EXCEPT ![mp3_filepath] = "renamed"]

\* script.py 381-388
ScriptRequest ==
    /\ pc = "request"
    /\ \E resp \in Responses :
         LET r  == request(resp)
             tr == Append(trace, Ev("search", 0, resp.kind))
         IN  IF r.raises # ""
             THEN /\ ScriptRaise(r.raises, tr)
                  /\ UNCHANGED songs
             ELSE IF r.none \/ r.songs = <<>>
             THEN /\ Return(Append(tr, Ev("notfound", 0, "")))
                  /\ UNCHANGED songs
             ELSE /\ songs' = r.songs
                  /\ pc' = "loop"
                  /\ trace' = tr
                  /\ UNCHANGED idx
    /\ UNCHANGED <<mp3_filepath, loc, dest, incomplete, fp, i, song, invalid, call>>

\* script.py 390-406 and 422-427: one iteration of the candidate loop, up
\* to the prompt or the download.  The tests are those of process_songs;
\* the automatic acceptance goes to its own download step, whose code has
\* no break.
ScriptLoopStep ==
    /\ pc = "loop"
    /\ IF i = Len(songs)
       THEN /\ Return(trace)
            /\ UNCHANGED <<i, song, loc, invalid>>
       ELSE LET k  == i + 1
                c  == Classify(fp, song, songs[k], dest)
                tr0 == Append(trace, Ev("item", k, ""))
                tr == Append(tr0, Ev("found", k, ""))
            IN  /\ i' = k
                /\ song' = c.song
                /\ invalid' = 0
                /\ CASE c.branch = "set_info" ->
                            /\ ScriptRaise(c.exc, tr0)
                            /\ UNCHANGED loc
                     [] c.branch = "has_exception" ->
                            /\ ScriptRaise(c.exc, tr)
                            /\ UNCHANGED loc
                     [] c.branch = "excluded" ->
                            /\ trace' = Append(tr, Ev("excluded", k, ""))
                            /\ UNCHANGED <<pc, idx, loc>>
                     [] c.branch = "exists" ->
                            IF RenameRaises
                            THEN /\ ScriptRaise("FileNotFoundError",
                                                Append(tr, Ev("exists", k, "")))
                                 /\ UNCHANGED loc
                            ELSE /\ trace' = tr \o <<Ev("exists", k, ""),
                                                     Ev("rename", k, "")>>
                                 /\ loc' = check_and_rename
                                 /\ UNCHANGED <<pc, idx>>
                     [] c.branch = "prompt" ->
                            /\ pc' = "prompt"
                            /\ trace' = Append(tr, Ev("prompt", k, ""))
                            /\ UNCHANGED <<idx, loc>>
                     [] c.branch = "similar" ->
                            /\ pc' = "autodownload"
                            /\ trace' = Append(tr, Ev("similar", k, ""))
                            /\ UNCHANGED <<idx, loc>>
                     [] OTHER ->
                            /\ trace' = Append(tr, Ev("nomatch", k, ""))
                            /\ UNCHANGED <<pc, idx, loc>>
    /\ UNCHANGED <<mp3_filepath, dest, incomplete, fp, songs, call>>

\* script.py 344-347 and 88-112, then check_and_rename: after the download
\* the operator confirmed (script.py 411-414) comes a break; after the
\* automatic one (script.py 423-425) comes nothing, and the for loop takes
\* the next candidate.
DownloadAndRename(outcome, asked, tr) ==
    CASE outcome \in {"ok", "truncated_unnoticed"} ->
             /\ dest' = dest \cup {song.filename.s}
             /\ IF RenameRaises
                THEN /\ ScriptRaise("FileNotFoundError", Append(tr, Ev("dlok", i, "")))
                     /\ UNCHANGED loc
                ELSE /\ loc' = check_and_rename
                     /\ IF asked
                        THEN Return(tr \o <<Ev("dlok", i, ""), Ev("rename", i, "")>>)
                        ELSE /\ pc' = "loop"
                             /\ trace' = tr \o <<Ev("dlok", i, ""), Ev("rename", i, "")>>
                             /\ UNCHANGED idx
      [] outcome \in {"connerror", "badstatus"} ->
             /\ ScriptRaise("AttributeError", Append(tr, Ev("dlfail", i, "")))
             /\ UNCHANGED <<dest, loc>>
      [] outcome = "nolength" ->
             /\ ScriptRaise("TypeError", Append(tr, Ev("dlfail", i, "")))
             /\ UNCHANGED <<dest, loc>>
      [] outcome = "truncated" ->
             /\ dest' = dest \cup {song.filename.s}
             /\ ScriptRaise("ProtocolError", Append(tr, Ev("dlfail", i, "")))
             /\ UNCHANGED loc
      [] OTHER ->
             /\ ScriptRaise("OSError", Append(tr, Ev("dlfail", i, "")))
             /\ UNCHANGED <<dest, loc>>

ScriptDownload ==
    /\ pc \in {"download", "autodownload"}
    /\ \E outcome \in DownloadOutcomes :
         DownloadAndRename(outcome, pc = "download",
                           Append(trace, Ev("dlreq", i, outcome)))
    /\ UNCHANGED <<mp3_filepath, incomplete, fp, songs, i, song, invalid, call>>

\* script.py 429-440 is main.py's loop over the directory, script.py
\* 214-237 SongHandler's extract and script.py 351-378 with 408-421
\* main.py's prompt: MainNext, Extract and Prompt are their steps.
NextScript ==
    MainNext \/ Extract \/ ScriptRequest \/ ScriptLoopStep \/ Prompt \/ ScriptDownload

SpecScript == Init /\ [][NextScript]_vars

\* ------------------------------------------- the content of the files
\* Spec records which filenames the destination folder holds, not what is
\* in the files.  A fourth specification runs the same program and also
\* watches the bytes: open(file_path, 'wb') of with_progress_bar (classes.py
\* 54) creates the file before the first byte is copied and nothing removes
\* it afterwards, so a stream that ends before Content-Length bytes have
\* arrived, whether read() raises or just reports the end, leaves a file
\* that is shorter than declared under the candidate's filename.
DownloadObserved ==
    /\ pc = "download"
    /\ \E outcome \in DownloadOutcomes :
         /\ DownloadAndMove(outcome, Append(trace, Ev("dlreq", i, outcome)))
         /\ incomplete' = IF outcome \in {"truncated", "truncated_unnoticed"}
                          THEN incomplete \cup {song.filename.s}
                          ELSE incomplete
    /\ UNCHANGED <<mp3_filepath, fp, songs, i, song, invalid, call>>

NextDisk == MainNext \/ Extract \/ Request \/ LoopStep \/ Prompt \/ DownloadObserved

SpecDisk == Init /\ [][NextDisk]_vars

\* ------------------------------------------------------------ the claims
Events == 1..Len(trace)

\* the events after position n of the current file's run
After(n) == (n + 1)..Len(trace)

\* events that only close a run: the move of the local file and the return
Closing == {"move", "nomove", "return"}

\* C1: once a candidate's filename is found in the destination folder, the
\* local file is marked processed and the file's run is over: nothing but
\* the move and the return follows, so no later candidate is examined and
\* no download is requested.
C1_AlreadyExistsIsTerminal ==
    \A n \in Events :
        trace[n].ev = "exists" =>
            /\ loc[mp3_filepath] = "done"
            /\ \A m \in After(n) : trace[m].ev \in Closing

\* C2: a failed download of an accepted candidate does not end the file's
\* run: no exception leaves process_songs because of it, and when the list
\* has a next candidate the loop goes on to classify it.
C2_FailedDownloadTriesNext ==
    \A n \in Events :
        trace[n].ev = "dlfail" =>
            /\ \A m \in After(n) : trace[m].ev # "raise"
            /\ trace[n].i < Len(songs) =>
                   \/ pc = "loop"
                   \/ \E m \in After(n) : /\ trace[m].ev = "found"
                                          /\ trace[m].i = trace[n].i + 1

\* C3: after a successful download the local file is in the done folder and
\* the file's run is over: process_songs has returned, no further candidate
\* was taken from the list, nothing but the move and the return follows the
\* download, and it is the only successful download of the run.
C3_SuccessfulDownloadEndsFile ==
    \A n \in Events :
        trace[n].ev = "dlok" =>
            /\ loc[mp3_filepath] = "done"
            /\ pc \in {"main", "done"}
            /\ i = trace[n].i
            /\ \A m \in After(n) : trace[m].ev \in Closing
            /\ \A m \in Events : trace[m].ev = "dlok" => m = n

\* a download the operator confirmed succeeded while the list had more
\* candidates to offer
C3_Witness ==
    \E n \in Events :
        /\ trace[n].ev = "dlok"
        /\ trace[n].i < Len(songs)
        /\ \E m \in 1..(n - 1) : trace[m] = Ev("answer", trace[n].i, "DOWNLOAD")
        /\ pc = "main"

\* C4: the operator's Quit ends the whole batch at once: the program has
\* terminated past main's handler (nothing follows the answer but the
\* SystemExit that exit() raises, and no step is possible any more), no
\* download was requested for the candidate asked about, and no directory
\* entry after the current file was processed.
C4_QuitEndsBatch ==
    \A n \in Events :
        trace[n] = Ev("answer", trace[n].i, "QUIT") =>
            /\ pc = "terminated"
            /\ ~ENABLED Next
            /\ After(n) = {n + 1}
            /\ trace[n + 1] = Ev("raise", 0, "SystemExit")
            /\ \A m \in Events : trace[m].ev = "dlreq" => trace[m].i # trace[n].i
            /\ idx = mp3_filepath

\* Quit was answered while directory entries were still to come
C4_Witness ==
    /\ pc = "terminated"
    /\ mp3_filepath < NumFiles
    /\ \E n \in Events : trace[n].ev = "answer" /\ trace[n].a = "QUIT"

\* C5: the operator's Exit ends the candidate loop of the current file only:
\* process_songs returns right after the answer, no download was requested
\* for the candidate asked about, no later candidate was taken from the
\* list, and main goes on with the next directory entry (it has not
\* terminated, and its loop can take its next step).
C5_ExitEndsFileOnly ==
    \A n \in Events :
        trace[n] = Ev("answer", trace[n].i, "EXIT") =>
            /\ After(n) = {n + 1}
            /\ trace[n + 1].ev = "return"
            /\ i = trace[n].i
            /\ \A m \in Events : trace[m].ev = "dlreq" => trace[m].i # trace[n].i
            /\ pc \in {"main", "done"}
            /\ idx > mp3_filepath
            /\ pc = "main" => ENABLED MainNext

\* Exit was answered with candidates left in the list and directory
\* entries still to come
C5_Witness ==
    /\ pc = "main"
    /\ mp3_filepath < NumFiles
    /\ \E n \in Events : /\ trace[n].ev = "answer"
                         /\ trace[n].a = "EXIT"
                         /\ trace[n].i < Len(songs)

\* a character of the Cyrillic script: the Unicode block U+0400 .. U+04FF
IsCyrillic(c) == c \in 1024..1279

HasCyrillicChar(s) == \E k \in 1..Len(s) : IsCyrillic(s[k])

\* the display name "artist - title" of the k-th candidate of the list
CandidateName(k) == DisplayName(PyStr(songs[k].name), PyStr(songs[k].title))

\* C6: when the local display name or the candidate's display name holds a
\* Cyrillic character, a download is requested for the candidate only after
\* the operator answered Download for it.
C6_CyrillicNeverAutoAccepted ==
    \A n \in Events :
        ( /\ trace[n].ev = "dlreq"
          /\ \/ HasCyrillicChar(name_local)
             \/ HasCyrillicChar(CandidateName(trace[n].i)) )
        => \E m \in 1..(n - 1) : trace[m] = Ev("answer", trace[n].i, "DOWNLOAD")

\* the k-th candidate's title contains an exclusion keyword
TitleExcluded(k) ==
    \E w \in 1..Len(EXCLUDE_ITEMS) : Contains(songs[k].title, EXCLUDE_ITEMS[w])

\* C7: a candidate whose title contains an exclusion keyword is rejected
\* whatever else holds of it: the only things the run does for it are to
\* take it, print it and reject it, and the loop then takes the next
\* candidate (or returns at the end of the list).  When every candidate of
\* the list was rejected, the run ends with the local file left in place
\* and nothing downloaded.
C7_ExcludedCandidateRejected ==
    /\ \A n \in Events :
           (trace[n].ev = "found" /\ TitleExcluded(trace[n].i)) =>
               LET k == trace[n].i
               IN  /\ \A m \in Events :
                          trace[m].i = k => trace[m].ev \in {"item", "found", "excluded"}
                   /\ n < Len(trace)
                   /\ trace[n + 1] = Ev("excluded", k, "")
                   /\ IF n + 1 = Len(trace)
                      THEN pc = "loop" /\ i = k
                      ELSE IF k < Len(songs)
                      THEN trace[n + 2] = Ev("item", k + 1, "")
                      ELSE trace[n + 2].ev = "return"
    /\ ( /\ trace # <<>>
         /\ trace[Len(trace)].ev = "return"
         /\ songs # <<>>
         /\ \A k \in 1..Len(songs) :
                \E m \in Events : /\ trace[m].ev \in {"excluded", "nomatch"}
                                  /\ trace[m].i = k )
       => /\ loc[mp3_filepath] = "source"
          /\ \A m \in Events : trace[m].ev \notin {"dlreq", "prompt", "move", "nomove"}

\* an excluded candidate whose own filename is in the destination folder
\* was the whole list, and the run has returned
C7_Witness ==
    /\ pc = "main"
    /\ Len(songs) = 1
    /\ TitleExcluded(1)
    /\ set_info(NoSong, songs[1]).song.filename.s \in dest
    /\ \E n \in Events : trace[n] = Ev("excluded", 1, "")

\* the search outcomes that are failures of the transport or of the parsing
SearchFailures == {"connerror", "badstatus", "badjson", "nonobject", "nulltracks"}

\* C8: when the search fails at the transport or parse level, request()
\* raises nothing and gives no candidates: the run prints that nothing was
\* found and returns, with no candidate taken, nothing downloaded and the
\* local file left in place.
C8_SearchFailureIsNoMatch ==
    \A n \in Events :
        (trace[n].ev = "search" /\ trace[n].a \in SearchFailures) =>
            /\ After(n) = {n + 1, n + 2}
            /\ trace[n + 1].ev = "notfound"
            /\ trace[n + 2].ev = "return"
            /\ songs = <<>>
            /\ loc[mp3_filepath] = "source"

\* C9: every exception but the SystemExit of Quit that leaves process_songs
\* is caught by main, which goes on with the next directory entry; the
\* program terminates early only after the operator answered Quit, and it
\* reaches its end only with every directory entry visited.
C9_FailuresCaughtPerFile ==
    /\ \A n \in Events :
           (trace[n].ev = "raise" /\ trace[n].a # "SystemExit") =>
               /\ After(n) = {n + 1}
               /\ trace[n + 1] = Ev("caught", 0, trace[n].a)
               /\ pc \in {"main", "done"}
               /\ idx > mp3_filepath
    /\ pc = "terminated" =>
           \E n \in Events : /\ trace[n].ev = "answer"
                             /\ trace[n].a = "QUIT"
                             /\ After(n) = {n + 1}
    /\ pc = "done" => idx = NumFiles + 1
    /\ (pc = "main" /\ idx <= NumFiles) => ENABLED MainNext

\* an exception raised by a download was caught while directory entries
\* were still to come
C9_Witness ==
    /\ pc = "main"
    /\ idx <= NumFiles
    /\ \E n \in Events : trace[n].ev = "dlfail"
    /\ trace[Len(trace)].ev = "caught"

\* the events a step adds to the trace
Added == IF Len(trace') > Len(trace) /\ SubSeq(trace', 1, Len(trace)) = trace
         THEN SubSeq(trace', Len(trace) + 1, Len(trace'))
         ELSE trace'

\* C10: a local file changes place only when it is the file being processed
\* and is moved to the done folder, and the step that moves it has, right
\* before the move, either completed a download or found a candidate's
\* filename in the destination folder; that step has no failed download, no
\* rejection, no Skip or Exit answer and no empty search result.
C10_MovedOnlyAfterAcquisition ==
    [][ \A f \in 1..NumFiles :
          loc'[f] # loc[f] =>
            /\ f = mp3_filepath
            /\ loc[f] = "source" /\ loc'[f] = "done"
            /\ \E n \in 2..Len(trace') :
                  /\ n > Len(trace' ) - Len(Added)
                  /\ trace'[n].ev = "move"
                  /\ trace'[n - 1].ev \in {"dlok", "exists"}
                  /\ trace'[n - 1].i = trace'[n].i
                  /\ trace'[n - 1].ev = "dlok" =>
                         /\ n > 2
                         /\ trace'[n - 2] = Ev("dlreq", trace'[n].i, "ok")
            /\ \A n \in 1..Len(Added) :
                  Added[n].ev \in {"item", "found", "exists", "dlreq", "dlok",
                                   "move", "return"}
      ]_vars

\* the download outcomes in which the stream ended before the declared
\* Content-Length bytes had arrived
Truncated == {"truncated", "truncated_unnoticed"}

\* C11: a download whose stream ends before the declared Content-Length
\* bytes arrived is a failed download: perform_download does not return
\* normally from it, and the local file is not moved to the done folder
\* because of it.
C11_TruncatedDownloadFails ==
    \A n \in Events :
        (trace[n].ev = "dlreq" /\ trace[n].a \in Truncated) =>
            /\ n < Len(trace) => trace[n + 1].ev = "dlfail"
            /\ \A m \in After(n) : trace[m].ev \notin {"dlok", "move"}
            /\ loc[mp3_filepath] = "source"

\* the text None, which Python prints for a missing value
NoneText == <<78, 111, 110, 101>>

\* C12: for a file the tag parser cannot read, or one that has no tag,
\* extract() gives an artist and a title that are both the empty string,
\* so neither the local display name nor the search query built of them
\* holds the text None.
C12_NoTagsGiveEmptyFingerprint ==
    ( /\ call.op = "extract"
      /\ call.done
      /\ ~call.arg.loads \/ ~call.arg.hasTag )
    => /\ call.res = [artist |-> PyStr(<<>>), title |-> PyStr(<<>>)]
       /\ ~Contains(DisplayName(call.res.artist, call.res.title), NoneText)
       /\ ~Contains(Query(call.res.artist, call.res.title), NoneText)

\* the path separators: / and \
PathSeparators == {47, 92}

\* C13: the filename set_info() builds for a candidate depends on that
\* candidate's artist, title, copyright, bit depth and sampling rate only
\* (it is the same whether or not set_info was applied to another
\* candidate before, and the same for any candidate with these five
\* fields), and it holds no path separator.
C13_FilenameIsSafe ==
    ( /\ call.op = "set_info"
      /\ call.done
      /\ call.res.raises = "" )
    => LET d == call.arg.data
           filename == call.res.song.filename
       IN  /\ ~filename.none
           /\ filename = set_info(NoSong, d).song.filename
           /\ \A e \in Items :
                  ( /\ e.hasPerformer
                    /\ e.missing \ {"id"} = d.missing \ {"id"}
                    /\ e.name = d.name /\ e.title = d.title
                    /\ e.copyright = d.copyright
                    /\ e.maximum_bit_depth = d.maximum_bit_depth
                    /\ e.maximum_sampling_rate = d.maximum_sampling_rate )
                  => set_info(NoSong, e).song.filename = filename
           /\ \A k \in 1..Len(filename.s) : filename.s[k] \notin PathSeparators

\* C14: when the operator answers Skip for a candidate, nothing more is
\* done for that candidate (no download is requested for it and the local
\* file is not moved because of it), and the loop goes on: it takes the
\* next candidate of the list, in list order, or, when the skipped one was
\* the last, the run returns; a run in which nothing was moved leaves the
\* local file in place.
C14_SkipAdvances ==
    \A n \in Events :
        trace[n] = Ev("answer", trace[n].i, "SKIP") =>
            LET k == trace[n].i
            IN  /\ \A m \in Events :
                       trace[m].i = k =>
                           trace[m].ev \in {"item", "found", "prompt", "input",
                                            "invalid", "answer"}
                /\ IF n = Len(trace)
                   THEN pc = "loop" /\ i = k
                   ELSE IF k < Len(songs)
                   THEN trace[n + 1] = Ev("item", k + 1, "")
                   ELSE /\ After(n) = {n + 1}
                        /\ trace[n + 1].ev = "return"
                /\ (\A m \in Events : trace[m].ev # "move") =>
                       loc[mp3_filepath] = "source"

\* Skip was answered for the first of two candidates and the second was
\* taken
C14_Witness ==
    \E n \in Events :
        /\ trace[n] = Ev("answer", 1, "SKIP")
        /\ n < Len(trace)
        /\ trace[n + 1] = Ev("item", 2, "")

\* the maximal runs of word characters of s, as <<first, last>> positions
WordRuns(s) ==
    LET starts == {a \in 1..Len(s) : IsWord(s[a]) /\ (a = 1 \/ ~IsWord(s[a - 1]))}
        ends   == {b \in 1..Len(s) : IsWord(s[b]) /\ (b = Len(s) \/ ~IsWord(s[b + 1]))}
    IN  {<<a, CHOOSE b \in ends : b >= a /\ \A e \in ends : e >= a => b <= e>> :
            a \in starts}

\* the first token of s that is four digits, or the empty text
FirstYearToken(s) ==
    LET years == {r \in WordRuns(s) :
                     r[2] = r[1] + 3 /\ \A j \in r[1]..r[2] : s[j] \in 48..57}
    IN  IF years = {} THEN <<>>
        ELSE LET r == CHOOSE r \in years : \A q \in years : r[1] <= q[1]
             IN  SubSeq(s, r[1], r[2])

\* "<artist> - <title> (<year>) [FLAC] [<bitDepth>B - <sampleRate>kHz].flac"
\* for the candidate d
TargetFilename(d) ==
    d.name \o <<32, 45, 32>> \o d.title \o <<32, 40>> \o FirstYearToken(d.copyright)
    \o <<41, 32, 91, 70, 76, 65, 67, 93, 32, 91>> \o IntStr(d.maximum_bit_depth)
    \o <<66, 32, 45, 32>> \o IntStr(d.maximum_sampling_rate)
    \o <<107, 72, 122, 93, 46, 102, 108, 97, 99>>

\* C15: a download is requested only for the candidate the loop stands at,
\* after that candidate was accepted (by the operator or by its score);
\* the request carries that candidate's id, and the step that performs the
\* download adds nothing to the destination folder but that candidate's
\* filename "<artist> - <title> (<year>) [FLAC] [<bitDepth>B -
\* <sampleRate>kHz].flac", year being the first four-digit token of the
\* copyright text or empty, and adds it when the download completes.  No
\* other step changes the destination folder.
C15_DownloadsTheAcceptedCandidate ==
    [][ /\ pc = "download" =>
             LET d == songs[i]
             IN  /\ trace[Len(trace)] \in {Ev("answer", i, "DOWNLOAD"),
                                           Ev("similar", i, "")}
                 /\ song.track_id = PyInt(d.id)
                 /\ song.filename = PyStr(TargetFilename(d))
                 /\ dest' \in {dest, dest \cup {TargetFilename(d)}}
                 /\ trace'[Len(trace) + 1].ev = "dlreq"
                 /\ trace'[Len(trace) + 1].i = i
                 /\ trace'[Len(trace) + 1].a = "ok" => TargetFilename(d) \in dest'
        /\ pc # "download" => dest' = dest
      ]_vars

\* the second of two candidates was downloaded, the first one's filename
\* is not in the destination folder, and the year was taken from a
\* copyright text with several runs of digits
C15_Witness ==
    /\ Len(songs) = 2
    /\ \E n \in Events : trace[n] = Ev("dlreq", 2, "ok")
    /\ songs[2].id = 44
    /\ songs[1].hasPerformer
    /\ TargetFilename(songs[2]) \in dest
    /\ TargetFilename(songs[1]) \notin dest

\* C16: at a candidate that lacks a key the code reads (the performer
\* object, or one of id, performer.name, title, copyright,
\* maximum_bit_depth, maximum_sampling_rate), the iteration raises: the
\* candidate is not excluded, found present, prompted for, downloaded or
\* rejected, and the exception ends the run of the file.
C16_MissingFieldEndsFile ==
    ( /\ call.op = "classify"
      /\ call.done
      /\ ~call.arg.data.hasPerformer \/ call.arg.data.missing # {} )
    => /\ call.res.branch \in {"set_info", "has_exception"}
       /\ call.res.exc # ""
       /\ CaughtByMain(call.res.exc)

\* the score of the k-th candidate's display name against the local one
Ratio(k) == token_set_ratio(name_local, CandidateName(k))

\* C17: a candidate that is not excluded, not present in the destination
\* folder and has no Cyrillic in either display name is scored, and it is
\* accepted without a prompt exactly when its score is 90 or more (90 is
\* accepted, 89 is not): a download is then requested for it; otherwise it
\* is rejected, nothing is requested for it, and the loop takes the next
\* candidate or returns at the end of the list.
C17_AcceptedFromNinety ==
    \A n \in Events :
        LET k == trace[n].i
        IN  /\ trace[n].ev \in {"exists", "prompt", "similar", "nomatch"} =>
                   ~TitleExcluded(k)
            /\ trace[n].ev \in {"similar", "nomatch"} =>
                   /\ n > 1 /\ trace[n - 1] = Ev("found", k, "")
                   /\ ~has_cyrillic(name_local) /\ ~has_cyrillic(CandidateName(k))
                   /\ trace[n].ev = "similar" <=> Ratio(k) >= 90
            /\ trace[n].ev = "similar" =>
                   IF n = Len(trace) THEN pc = "download" /\ i = k
                   ELSE trace[n + 1].ev = "dlreq" /\ trace[n + 1].i = k
            /\ trace[n].ev = "nomatch" =>
                   /\ \A m \in Events :
                          trace[m].i = k => trace[m].ev \in {"item", "found", "nomatch"}
                   /\ IF n = Len(trace) THEN pc = "loop" /\ i = k
                      ELSE IF k < Len(songs) THEN trace[n + 1] = Ev("item", k + 1, "")
                      ELSE trace[n + 1].ev = "return"
            /\ ( /\ trace[n].ev = "found"
                 /\ n < Len(trace)
                 /\ trace[n + 1].ev \notin {"excluded", "exists", "prompt", "raise"} )
               => trace[n + 1].ev \in {"similar", "nomatch"}

\* a candidate scoring 89 was rejected and the next candidate was taken
C17_Witness ==
    \E n \in Events :
        /\ trace[n] = Ev("nomatch", 1, "")
        /\ Ratio(1) = 89
        /\ n < Len(trace)
        /\ trace[n + 1] = Ev("item", 2, "")

\* the four actions and the input each answers
Recognized == {<<"1", "DOWNLOAD">>, <<"2", "SKIP">>, <<"3", "EXIT">>, <<"4", "QUIT">>}

\* of each item of Catalog: whether its title holds an exclusion keyword,
\* the filename set_info gives it, and whether its display name holds a
\* Cyrillic letter of the code's test
CatalogFacts ==
    [d \in Catalog |->
        [excluded |-> \E w \in 1..Len(EXCLUDE_ITEMS) : Contains(d.title, EXCLUDE_ITEMS[w]),
         filename |-> set_info(NoSong, d).song.filename.s,
         cyrillic |-> has_cyrillic(DisplayName(PyStr(d.name), PyStr(d.title)))]]

OccursAt(s, w, k) == k + Len(w) <= Len(s) /\ SubSeq(s, k + 1, k + Len(w)) = w

\* the places in the keyword list of the keywords that occur in s
Present(s) ==
    {j \in 1..Len(KEYWORDS_TO_DELETE_AFTER) :
        \E k \in 0..Len(s) : OccursAt(s, KEYWORDS_TO_DELETE_AFTER[j], k)}

\* C19: remove_after_keyword returns a text with no noise keyword as it
\* is; otherwise it returns what stands before the first occurrence of the
\* keyword that comes first in the list among those occurring in the text,
\* wherever the other keywords occur, and applies no second keyword to
\* the result.
C19_FirstListedKeywordCuts ==
    (call.op = "remove_after_keyword" /\ call.done) =>
        LET s == call.arg
            r == call.res
        IN  IF Present(s) = {} THEN r = s
            ELSE LET j == CHOOSE j \in Present(s) : \A q \in Present(s) : j <= q
                     w == KEYWORDS_TO_DELETE_AFTER[j]
                 IN  /\ Len(r) <= Len(s)
                     /\ r = SubSeq(s, 1, Len(r))
                     /\ OccursAt(s, w, Len(r))
                     /\ \A k \in 0..(Len(r) - 1) : ~OccursAt(s, w, k)

\* "(xfeat" was cut at feat, listed first, though the parenthesis comes
\* before it in the text; the parenthesis stays in the result
C19_Witness ==
    /\ call.op = "remove_after_keyword"
    /\ call.done
    /\ call.arg = <<40, 120, 102, 101, 97, 116>>
    /\ call.res = <<40, 120>>

\* C20: for a file with a tag that has a title, extract() returns the
\* title cut after its noise keyword, whatever the artist field of the tag
\* holds, a missing artist included.
C20_TitleTruncatedWhateverArtist ==
    ( /\ call.op = "extract"
      /\ call.done
      /\ call.arg.loads /\ call.arg.hasTag
      /\ ~call.arg.title.none )
    => call.res.title = PyStr(remove_after_keyword(call.arg.title.s))

\* C21: check_and_move is idempotent on the local file.  Every existence
\* hit of a run calls it and it answers by moving the file or by reporting
\* that the file is not there, never by raising; a run moves its local
\* file at most once, every later call finds it gone and leaves it where
\* it is, and after any call the file is in the done folder.
C21_MoveIsIdempotent ==
    \A n \in DOMAIN trace :
        LET e == trace[n].ev
        IN  /\ e = "exists" =>
                  /\ n < Len(trace)
                  /\ trace[n + 1].ev \in {"move", "nomove"}
            /\ e = "move" =>
                  /\ \A m \in 1..(n - 1) : trace[m].ev # "move"
                  /\ loc[mp3_filepath] = "done"
            /\ e = "nomove" =>
                  /\ \E m \in 1..(n - 1) : trace[m].ev = "move"
                  /\ loc[mp3_filepath] = "done"

\* Two candidates of one local file are already in the destination folder:
\* the first hit moves the file, the second finds it moved.
C21_Witness ==
    \E m, n \in DOMAIN trace :
        /\ m < n
        /\ trace[m].ev = "exists" /\ trace[m + 1].ev = "move"
        /\ trace[n].ev = "exists" /\ n < Len(trace)
        /\ trace[n + 1].ev = "nomove"
        /\ loc[mp3_filepath] = "done"

\* C22: in script.py the candidate loop never goes on after a successful
\* acquisition: once a download has returned, no later candidate of the
\* same local file is taken from the list, and the local file is renamed
\* exactly once.
C22_ScriptStopsAfterAcquisition ==
    \A n \in DOMAIN trace :
        trace[n].ev = "dlok" =>
            /\ \A m \in (n + 1)..Len(trace) :
                   trace[m].ev \notin {"item", "found", "dlreq", "raise"}
            /\ n < Len(trace)
            /\ trace[n + 1].ev = "rename"
            /\ \A m \in DOMAIN trace : trace[m].ev = "rename" => m = n + 1

\* C23: whenever a local file is marked processed, the destination folder
\* holds a complete file under the filename of the candidate that got it
\* marked; and a filename the existence check finds in the folder is never
\* that of a partial file an earlier download left behind.
C23_ProcessedMeansComplete ==
    \A n \in DOMAIN trace :
        trace[n].ev \in {"exists", "move"} =>
            LET name == set_info(NoSong, songs[trace[n].i]).song.filename.s
            IN  /\ name \in dest
                /\ name \notin incomplete

\* the positions of the trace where a candidate is taken from the list,
\* and those where the search is sent
ItemsTaken == {n \in DOMAIN trace : trace[n].ev = "item"}
Searches == {n \in DOMAIN trace : trace[n].ev = "search"}

\* the call of process_songs for a file is over
Ended == pc \in {"main", "done", "terminated"}

\* The candidates are taken once each and in the order of the list, after
\* the one search of the file; and a call that is over ended in an outcome:
\* it returned after an acquisition, an existence hit, the operator's Exit
\* or the end of the list (or with no list at all), or a failure was
\* logged by main, or the operator's Quit ended the batch.
C24_OnceInOrder ==
    /\ \A m, n \in Searches : m = n
    /\ \A n \in ItemsTaken :
          /\ \E m \in Searches : m < n
          /\ \/ trace[n].i = 1
             \/ \E m \in ItemsTaken : m < n /\ trace[m].i = trace[n].i - 1
          /\ \A m \in ItemsTaken : m < n => trace[m].i < trace[n].i
          /\ trace[n].i <= Len(songs)
    /\ pc \in {"loop", "prompt", "download"} => Searches # {}
    /\ (Ended /\ trace # <<>>) =>
          LET last == trace[Len(trace)]
          IN  \/ /\ last.ev = "return"
                 /\ \/ \E n \in DOMAIN trace :
                          trace[n].ev \in {"dlok", "exists", "notfound"}
                    \/ \E n \in DOMAIN trace :
                          trace[n].ev = "answer" /\ trace[n].a = "EXIT"
                    \/ i = Len(songs)
              \/ last.ev = "caught"
              \/ last.ev = "raise" /\ last.a = "SystemExit" /\ pc = "terminated"

====
